---- MODULE Spec2Model ----
(***************************************************************************)
(* Model of APIClient (src/api_framework.py): the rate limiter             *)
(* (_rate_limit), the request path (_request, get/post/put/delete) and the *)
(* urllib3 Retry policy that __init__ mounts on the session                *)
(* (Retry(total=max_retries, backoff_factor=..., status_forcelist=...,     *)
(* allowed_methods=..., raise_on_status=False)).                           *)
(*                                                                         *)
(* Time is a discrete clock.  One tick is 1/Resolution second, Resolution  *)
(* being the least common multiple of the modelled request rates, so that  *)
(* min_interval = 1.0 / requests_per_second is a whole number of ticks.    *)
(* The clock is monotonic (time.time() is assumed not to step backwards)   *)
(* and time.sleep(d) returns no earlier than d after it was called.        *)
(*                                                                         *)
(* A 3xx status stands for a response that requests does not follow        *)
(* (no Location header, e.g. 304); redirect hops are not modelled.         *)
(***************************************************************************)
EXTENDS Integers, Naturals, Sequences, FiniteSets, TLC

VARIABLES
    now,        \* the clock read by time.time(), in ticks
    cfg,        \* the constructor's arguments (never assigned after __init__)
    last_call,  \* self._last_call
    env,        \* the run's environment: the calling threads, the methods they
                \* call, the number of calls, what the transport may answer,
                \* how far the clock runs, and whether callers and transport
                \* are prompt (time passes only while a thread sleeps)
    th,         \* per thread: position in the call and the call's locals
    nCalls,     \* number of get/post/put/delete calls started so far
    lastSend,   \* clock at the latest transport attempt (0: none yet)
    session,    \* self.session: "open" until close() is called
    blk         \* the with-block the main thread uses the client in, if any:
                \* pos is "none" (no with-block), "inside" or "left"; exc is the
                \* exception that left the block with it ("none": none)

vars == <<now, cfg, last_call, env, th, nCalls, lastSend, session, blk>>

----------------------------------------------------------------------------
(* Bounds of the model *)

MaxTime == 6        \* ticks the clock may advance
MaxCalls == 2       \* calls started in one run
MaxRetries == 4     \* largest max_retries a client is constructed with

Threads == {"main", "worker"}
MainThread == "main"
Rates == {1, 2}             \* requests_per_second
BackoffFactors == {1, 2}    \* backoff_factor, in ticks (0.5 s and 1.0 s)
Methods == {"GET", "POST", "PUT", "DELETE"}
StatusCodes == {102, 200, 304, 400, 404, 413, 429, 500, 501, 502, 503, 504, 600}
RetryAfterValues == {0, 3}  \* Retry-After header in ticks; 0: no such header
Bodies == {"[]", ""}

Max(a, b) == IF a >= b THEN a ELSE b
Min(a, b) == IF a <= b THEN a ELSE b

RECURSIVE Pow2(_)
Pow2(n) == IF n <= 0 THEN 1 ELSE 2 * Pow2(n - 1)

Resolution ==
    CHOOSE n \in 1..12 :
        /\ \A r \in Rates : n % r = 0
        /\ \A m \in 1..(n - 1) : \E r \in Rates : m % r # 0

----------------------------------------------------------------------------
(* Program constants *)

BACKOFF_MAX == 120          \* urllib3 Retry.DEFAULT_BACKOFF_MAX, seconds
status_forcelist == {429, 500, 502, 503, 504}
allowed_methods == {"GET", "POST", "PUT", "DELETE", "PATCH"}
RETRY_AFTER_STATUS_CODES == {413, 429, 503}

----------------------------------------------------------------------------
(* _rate_limit *)

\* min_interval = 1.0 / self.requests_per_second
min_interval(rps) == Resolution \div rps

\* the argument of time.sleep: min_interval - elapsed
SleepForNone(elapsed, mi) == 0
SleepFor(elapsed, mi) == mi - elapsed

\* if elapsed < min_interval
MustWait(elapsed, mi) == elapsed < mi

----------------------------------------------------------------------------
(* The urllib3 Retry object mounted by __init__ *)

\* Retry._is_method_retryable: allowed_methods lists every method the client sends
IsMethodRetryableIdempotent(method) == method \in {"GET", "PUT", "DELETE"}
IsMethodRetryable(method) == method \in allowed_methods

\* Retry.is_retry(method, status_code, has_retry_after); total is Retry.total
\* of the attempt, respect_retry_after_header keeps its default (True)
IsRetryForcelistOnly(method, status, has_retry_after, total) ==
    IsMethodRetryable(method) /\ status \in status_forcelist /\ total # 0
IsRetry(method, status, has_retry_after, total) ==
    IF ~IsMethodRetryable(method) THEN FALSE
    ELSE IF status \in status_forcelist THEN TRUE
    ELSE total # 0 /\ has_retry_after /\ status \in RETRY_AFTER_STATUS_CODES

\* Retry.is_exhausted, on the counters after Retry.increment: only total is set
IsExhaustedLate(total) == total < -1
IsExhausted(total) == total < 0

\* Retry.get_backoff_time: consecutive_errors_len is the length of the history
GetBackoffTimeNoSkip(backoff_factor, consecutive_errors_len) ==
    Min(BACKOFF_MAX * Resolution, backoff_factor * Pow2(consecutive_errors_len - 1))
GetBackoffTime(backoff_factor, consecutive_errors_len) ==
    IF consecutive_errors_len <= 1 THEN 0
    ELSE Min(BACKOFF_MAX * Resolution, backoff_factor * Pow2(consecutive_errors_len - 1))

\* Retry.sleep(response): the Retry-After header when the response carries one,
\* else the backoff; retry_after = 0 stands for no response or no header
SleepTime(backoff_factor, consecutive_errors_len, retry_after) ==
    IF retry_after > 0 THEN retry_after
    ELSE GetBackoffTime(backoff_factor, consecutive_errors_len)

----------------------------------------------------------------------------
(* get / post / put / delete after _request returned a response *)

\* Response.raise_for_status raises HTTPError for 400 <= status < 600
RaisesForStatusServerOnly(status) == 500 <= status /\ status < 600
RaisesForStatus(status) == 400 <= status /\ status < 600

\* Response.json(): the decoded document, or JSONDecodeError
ParseJson(body) ==
    CASE body = "[]" -> [ok |-> TRUE, value |-> "list()"]
      [] OTHER -> [ok |-> FALSE, value |-> ""]

NoResult == [kind |-> "none", status |-> 0, value |-> ""]

\* r.raise_for_status(); return r.json()   (delete: no return statement)
FinishSwallow(method, status, body) ==
    [kind |-> "Success", status |-> status, value |-> "None"]
Finish(method, status, body) ==
    IF RaisesForStatus(status)
    THEN [kind |-> "HTTPError", status |-> status, value |-> ""]
    ELSE IF method = "DELETE"
    THEN [kind |-> "Success", status |-> status, value |-> "None"]
    ELSE IF ParseJson(body).ok
    THEN [kind |-> "Success", status |-> status, value |-> ParseJson(body).value]
    ELSE [kind |-> "JSONDecodeError", status |-> status, value |-> ""]

\* requests maps urllib3's MaxRetryError on a transport failure to ConnectionError
TransportFailed == [kind |-> "ConnectionError", status |-> -1, value |-> ""]

\* KeyboardInterrupt raised in the calling thread leaves the call
Interrupted == [kind |-> "KeyboardInterrupt", status |-> 0, value |-> ""]

----------------------------------------------------------------------------
(* State *)

IdleThread ==
    [pc |-> "idle", op |-> "", method |-> "", wake |-> 0, passes |-> 0, attempts |-> 0,
     retryables |-> 0,
     delay |-> -1, status |-> 0, ra |-> 0, body |-> "", act |-> "",
     result |-> NoResult]

Configs ==
    [base_url : {"https://host"}, requests_per_second : Rates, timeout : {30},
     max_retries : 0..MaxRetries, backoff_factor : BackoffFactors]

Outcomes ==
    [error : {TRUE}, status : {-1}, ra : {0}, body : {""}]
    \cup [error : {FALSE}, status : StatusCodes, ra : RetryAfterValues, body : Bodies]

\* one caller; the transport fails, or answers 200, 404 or 503
RateOutcomes ==
    {o \in Outcomes :
        o.error \/ (o.status \in {200, 404, 503} /\ o.ra = 0 /\ o.body = "[]")}

\* last_call = 0 is a fresh client; last_call = now is a client whose previous
\* call was admitted, and sent its attempt, at the current instant
InitWith(e, configs, stamps) ==
    /\ session = "open"
    /\ blk = [pos |-> e.block, exc |-> "none"]
    /\ now = Resolution
    /\ cfg \in configs
    /\ last_call \in stamps
    /\ env = e
    /\ th = [t \in Threads |-> IdleThread]
    /\ nCalls = 0
    /\ lastSend = last_call

Init ==
    InitWith([callers |-> {MainThread}, methods |-> Methods, budget |-> MaxCalls,
              outcomes |-> RateOutcomes, horizon |-> MaxTime, prompt |-> FALSE,
              block |-> "none"],
             Configs, {0})

\* the clock advances
Tick ==
    /\ now < Resolution + env.horizon
    /\ env.prompt =>
          \E t \in Threads : th[t].pc \in {"rl_sleep", "backoff"} /\ th[t].wake > now
    /\ nCalls < env.budget \/ \E t \in Threads : th[t].pc # "idle"
    /\ now' = now + 1
    /\ UNCHANGED <<cfg, last_call, env, th, nCalls, lastSend, session, blk>>

\* the client state a call writes besides _last_call: kwargs.setdefault("timeout",
\* self.timeout) fills the call's kwargs and leaves the client's fields alone
AfterSetdefault(c) == c

\* the configuration after urlopen counted an attempt: Retry.increment returns
\* a new Retry object and leaves the one mounted on the adapter as it is
AfterIncrementInPlace(c) == [c EXCEPT !.max_retries = Max(0, @ - 1)]
AfterIncrement(c) == c

\* whether a thread in state r holds a lock on the client: _rate_limit and
\* _request take none, and time.sleep releases the interpreter lock
HoldsClientWhileSuspended(r) == r.pc \in {"rl_sleep", "backoff"}
HoldsClient(r) == FALSE

\* no other thread keeps thread t from running
Free(t) == \A u \in Threads \ {t} : ~HoldsClient(th[u])

\* an exception raised by a call of the main thread inside the with-block
\* leaves the block: the block has no handler
Leaves(t) ==
    /\ blk.pos = "inside"
    /\ t = MainThread
    /\ th[t].pc = "done"
    /\ th[t].result.kind # "Success"

\* 1.0 / self.requests_per_second with requests_per_second = 0
DivisionFailed == [kind |-> "ZeroDivisionError", status |-> 0, value |-> ""]

\* the thread record of a call of method m after lines 54-57 of _rate_limit:
\* the division raises, or the call is about to sleep, or about to stamp
EnterRateLimit(m) ==
    IF cfg.requests_per_second = 0
    THEN [IdleThread EXCEPT !.method = m, !.pc = "done", !.result = DivisionFailed]
    ELSE LET elapsed == now - last_call
             mi == min_interval(cfg.requests_per_second)
         IN [IdleThread EXCEPT
                !.method = m,
                !.pc = IF MustWait(elapsed, mi) THEN "rl_sleep" ELSE "rl_stamp",
                !.wake = IF MustWait(elapsed, mi)
                         THEN now + SleepFor(elapsed, mi) ELSE 0]

\* get/post/put/delete -> _request -> _rate_limit, up to the sleep:
\* now = time.time(); elapsed = now - self._last_call; if elapsed < min_interval
StartCall(t, m) ==
    /\ t \in env.callers
    /\ th[t].pc = "idle"
    /\ nCalls < env.budget
    /\ blk.pos \in {"none", "inside"}
    /\ Free(t)
    /\ th' = [th EXCEPT ![t] = EnterRateLimit(m)]
    /\ nCalls' = nCalls + 1
    /\ UNCHANGED <<now, cfg, last_call, env, lastSend, session, blk>>

\* time.sleep(min_interval - elapsed) returns
RateLimitWake(t) ==
    /\ th[t].pc = "rl_sleep"
    /\ now >= th[t].wake
    /\ th' = [th EXCEPT ![t].pc = "rl_stamp", ![t].wake = 0]
    /\ UNCHANGED <<now, cfg, last_call, env, nCalls, lastSend, session, blk>>

\* self._last_call = time.time(); _rate_limit returns
RateLimitStamp(t) ==
    /\ th[t].pc = "rl_stamp"
    /\ Free(t)
    /\ last_call' = now
    /\ th' = [th EXCEPT ![t].pc = "send", ![t].passes = @ + 1]
    /\ UNCHANGED <<now, cfg, env, nCalls, lastSend, session, blk>>

\* session.request -> HTTPAdapter.send -> urlopen: one transport attempt starts
Send(t) ==
    /\ th[t].pc = "send"
    /\ Free(t)
    /\ th' = [th EXCEPT ![t].pc = "inflight",
                        ![t].attempts = @ + 1,
                        ![t].delay = -1,
                        ![t].status = 0,
                        ![t].ra = 0,
                        ![t].act = ""]
    /\ lastSend' = now
    /\ cfg' = AfterSetdefault(cfg)
    /\ UNCHANGED <<now, last_call, env, nCalls, session, blk>>

\* the thread record after urlopen decided to retry: Retry.sleep, then resend;
\* the attempt's outcome stays inside urlopen, and the resend starts inside
\* urlopen too, below _rate_limit
RetryingThroughLimiter(r, o, d) ==
    [r EXCEPT !.pc = IF d > 0 THEN "backoff" ELSE "rl_stamp",
              !.wake = IF d > 0 THEN now + d ELSE 0,
              !.delay = d,
              !.retryables = @ + 1,
              !.status = o.status,
              !.ra = o.ra,
              !.act = "retry"]
RetryingReported(r, o, d) ==
    [r EXCEPT !.pc = IF d > 0 THEN "backoff" ELSE "send",
              !.wake = IF d > 0 THEN now + d ELSE 0,
              !.delay = d,
              !.retryables = @ + 1,
              !.status = o.status,
              !.ra = o.ra,
              !.act = "retry",
              !.result = [kind |-> "Warning", status |-> o.status, value |-> ""]]
Retrying(r, o, d) ==
    [r EXCEPT !.pc = IF d > 0 THEN "backoff" ELSE "send",
              !.wake = IF d > 0 THEN now + d ELSE 0,
              !.delay = d,
              !.retryables = @ + 1,
              !.status = o.status,
              !.ra = o.ra,
              !.act = "retry"]

\* the thread record after the call left _request with `res`
Finished(r, o, res, act, retryable) ==
    [r EXCEPT !.pc = "done",
              !.retryables = IF retryable THEN @ + 1 ELSE @,
              !.status = o.status,
              !.ra = o.ra,
              !.body = o.body,
              !.act = act,
              !.result = res]

\* urlopen's handling of the attempt's outcome under the mounted Retry, then
\* raise_for_status / json in get/post/put/delete
AfterOutcomeRaiseOnStatus(r, o) ==
    LET total == cfg.max_retries - (r.attempts - 1)
        left == total - 1
        d == SleepTime(cfg.backoff_factor, r.attempts, o.ra)
    IN IF o.error
       THEN IF IsExhausted(left)
            THEN Finished(r, o, TransportFailed, "exhausted", TRUE)
            ELSE Retrying(r, o, d)
       ELSE IF IsRetry(r.method, o.status, o.ra > 0, total)
            THEN IF IsExhausted(left)
                 THEN Finished(r, o, [kind |-> "RetryError", status |-> o.status,
                                      value |-> ""], "exhausted", TRUE)
                 ELSE Retrying(r, o, d)
            ELSE Finished(r, o, Finish(r.method, o.status, o.body), "returned", FALSE)
AfterOutcome(r, o) ==
    LET total == cfg.max_retries - (r.attempts - 1)   \* Retry.total of this attempt
        left == total - 1                              \* after Retry.increment
        d == SleepTime(cfg.backoff_factor, r.attempts, o.ra)
    IN IF o.error
       THEN IF IsExhausted(left)
            THEN Finished(r, o, TransportFailed, "exhausted", TRUE)
            ELSE Retrying(r, o, d)
       ELSE IF IsRetry(r.method, o.status, o.ra > 0, total)
            THEN IF IsExhausted(left)
                 THEN Finished(r, o, Finish(r.method, o.status, o.body), "exhausted", TRUE)
                 ELSE Retrying(r, o, d)
            ELSE Finished(r, o, Finish(r.method, o.status, o.body), "returned", FALSE)

\* the transport answers the attempt, or fails it
Respond(t, o) ==
    /\ th[t].pc = "inflight"
    /\ Free(t)
    /\ th' = [th EXCEPT ![t] = AfterOutcome(th[t], o)]
    /\ cfg' = AfterIncrement(cfg)
    /\ UNCHANGED <<now, last_call, env, nCalls, lastSend, session, blk>>

\* Retry.sleep returns
BackoffWake(t) ==
    /\ th[t].pc = "backoff"
    /\ now >= th[t].wake
    /\ th' = [th EXCEPT ![t].pc = "send", ![t].wake = 0]
    /\ UNCHANGED <<now, cfg, last_call, env, nCalls, lastSend, session, blk>>

\* the thread record after KeyboardInterrupt was raised in a suspended call:
\* neither _rate_limit, _request nor urlopen catches it
AfterInterruptSwallowed(r) == [r EXCEPT !.pc = "send", !.wake = 0, !.result = Interrupted]
AfterInterrupt(r) == [r EXCEPT !.pc = "done", !.wake = 0, !.result = Interrupted]

\* the caller cancels: SIGINT reaches the main thread while the call is
\* suspended in time.sleep (rate-limit wait or backoff) or waits for the response
Cancel(t) ==
    /\ t = MainThread
    /\ th[t].pc \in {"rl_sleep", "backoff", "inflight"}
    /\ th' = [th EXCEPT ![t] = AfterInterrupt(th[t])]
    /\ UNCHANGED <<now, cfg, last_call, env, nCalls, lastSend, session, blk>>

\* the call's result or exception has reached the caller
Return(t) ==
    /\ th[t].pc = "done"
    /\ ~Leaves(t)
    /\ th' = [th EXCEPT ![t] = IdleThread]
    /\ UNCHANGED <<now, cfg, last_call, env, nCalls, lastSend, session, blk>>

Next ==
    \/ Tick
    \/ \E t \in Threads, m \in env.methods : StartCall(t, m)
    \/ \E t \in Threads : RateLimitWake(t)
    \/ \E t \in Threads : RateLimitStamp(t)
    \/ \E t \in Threads : Send(t)
    \/ \E t \in Threads, o \in env.outcomes : Respond(t, o)
    \/ \E t \in Threads : BackoffWake(t)
    \/ \E t \in Threads : Cancel(t)
    \/ \E t \in Threads : Return(t)

Spec == Init /\ [][Next]_vars

\* one caller making one call on a fresh or a just-used client, every modelled
\* answer of the transport, and a clock that runs long enough for every
\* backoff of the call to elapse
InitRetry ==
    InitWith([callers |-> {MainThread}, methods |-> Methods,
              budget |-> 1, outcomes |-> Outcomes,
              horizon |-> Pow2(MaxRetries), prompt |-> TRUE, block |-> "none"],
             {c \in Configs : c.requests_per_second = 2}, {0, Resolution})

SpecRetry == InitRetry /\ [][Next]_vars

\* several threads share the client
ConcOutcomes == {o \in RateOutcomes : o.status \in {200, 503}}

InitConc ==
    InitWith([callers |-> Threads, methods |-> {"GET", "POST"}, budget |-> MaxCalls,
              outcomes |-> ConcOutcomes, horizon |-> MaxTime, prompt |-> FALSE,
              block |-> "none"],
             {c \in Configs : c.max_retries \in {0, 2} /\ c.backoff_factor = 1}, {0})

SpecConc == InitConc /\ [][Next]_vars

\* close(): self.session.close()
CloseNothing(s) == s
Close(s) == "closed"

\* the exception in flight after __exit__(exc_type, exc, tb) returned: __exit__
\* returns None, so the with statement re-raises the exception it was given
AfterExitSuppressed(exc) == "none"
AfterExit(exc) == exc

\* with APIClient(...) as client: __enter__ returns the client
Enter ==
    /\ blk.pos = "before"
    /\ blk' = [blk EXCEPT !.pos = "inside"]
    /\ UNCHANGED <<now, cfg, last_call, env, th, nCalls, lastSend, session>>

\* the block's last statement completed: __exit__(None, None, None)
ExitNormal ==
    /\ blk.pos = "inside"
    /\ th[MainThread].pc = "idle"
    /\ session' = Close(session)
    /\ blk' = [pos |-> "left", exc |-> AfterExit("none")]
    /\ UNCHANGED <<now, cfg, last_call, env, th, nCalls, lastSend>>

\* a call inside the block raised: __exit__ is called with the exception
ExitOnError ==
    /\ Leaves(MainThread)
    /\ session' = Close(session)
    /\ blk' = [pos |-> "left", exc |-> AfterExit(th[MainThread].result.kind)]
    /\ th' = [th EXCEPT ![MainThread] = IdleThread]
    /\ UNCHANGED <<now, cfg, last_call, env, nCalls, lastSend>>

\* KeyboardInterrupt reaches the main thread between two calls of the block
InterruptBlock ==
    /\ blk.pos = "inside"
    /\ th[MainThread].pc = "idle"
    /\ session' = Close(session)
    /\ blk' = [pos |-> "left", exc |-> AfterExit(Interrupted.kind)]
    /\ UNCHANGED <<now, cfg, last_call, env, th, nCalls, lastSend>>

NextScope ==
    \/ Next
    \/ Enter
    \/ ExitNormal
    \/ ExitOnError
    \/ InterruptBlock

\* the main thread uses a client inside a with-block, as example_usage.py does
InitScope ==
    InitWith([callers |-> {MainThread}, methods |-> {"GET", "POST"},
              budget |-> MaxCalls, outcomes |-> RateOutcomes,
              horizon |-> MaxTime, prompt |-> FALSE, block |-> "before"],
             {c \in Configs : c.max_retries \in {0, 2} /\ c.backoff_factor = 1}, {0})

SpecScope == InitScope /\ [][NextScope]_vars

\* every configuration __init__ accepts: it stores requests_per_second as
\* given, 0 included
AcceptedConfigs ==
    Configs \cup {[c EXCEPT !.requests_per_second = 0] : c \in Configs}

InitAccepted ==
    InitWith([callers |-> {MainThread}, methods |-> Methods, budget |-> MaxCalls,
              outcomes |-> RateOutcomes, horizon |-> MaxTime, prompt |-> FALSE,
              block |-> "none"],
             {c \in AcceptedConfigs : c.max_retries \in {0, 2} /\ c.backoff_factor = 1},
             {0})

SpecAccepted == InitAccepted /\ [][Next]_vars

\* the keyword parameters of APIClient.post, and the keyword arguments that
\* GeminiClient.generate passes to self.post
PostKeywords == {"data", "json"}
GenerateKeywords == {"json", "params"}

\* a call with a keyword argument the function does not declare
BindingFailed == [kind |-> "TypeError", status |-> 0, value |-> ""]

\* GeminiClient.generate(prompt, system): builds the body and calls
\* self.post(endpoint, json=body, params=params); Python binds the arguments
\* to post's parameters before post's body runs
Generate(t) ==
    /\ t \in env.callers
    /\ th[t].pc = "idle"
    /\ nCalls < env.budget
    /\ blk.pos \in {"none", "inside"}
    /\ Free(t)
    /\ th' = [th EXCEPT ![t] =
                 IF GenerateKeywords \subseteq PostKeywords
                 THEN [EnterRateLimit("POST") EXCEPT !.op = "generate"]
                 ELSE [IdleThread EXCEPT !.op = "generate", !.method = "POST",
                                         !.pc = "done", !.result = BindingFailed]]
    /\ nCalls' = nCalls + 1
    /\ UNCHANGED <<now, cfg, last_call, env, lastSend, session, blk>>

NextGemini ==
    \/ Next
    \/ \E t \in Threads : Generate(t)

\* GeminiClient.__init__: max_retries=5, backoff_factor=1.0 (seconds), the
\* rate as given by the caller
GEMINI_MAX_RETRIES == 5

GeminiConfigs ==
    [base_url : {"https://generativelanguage.googleapis.com"},
     requests_per_second : Rates, timeout : {30},
     max_retries : {GEMINI_MAX_RETRIES}, backoff_factor : {Resolution}]

\* a GeminiClient, used through generate and through the inherited methods
InitGemini ==
    InitWith([callers |-> {MainThread}, methods |-> Methods, budget |-> MaxCalls,
              outcomes |-> RateOutcomes, horizon |-> MaxTime, prompt |-> FALSE,
              block |-> "none"],
             GeminiConfigs, {0})

SpecGemini == InitGemini /\ [][NextGemini]_vars

\* the longest one call can last: one rate-limit wait, then max_retries waits
\* of at most the largest Retry-After or the largest backoff each
LongestCall ==
    Resolution + MaxRetries * Max(3, 2 * Pow2(MaxRetries - 1))

\* the transport answers 200, 404 or 503, with or without Retry-After, or fails
LiveOutcomes ==
    {o \in Outcomes : o.error \/ (o.status \in {200, 404, 503} /\ o.body = "[]")}

\* one call on a fresh or a just-used client, with a clock that outlasts it
InitLive ==
    InitWith([callers |-> {MainThread}, methods |-> Methods,
              budget |-> 1, outcomes |-> LiveOutcomes,
              horizon |-> LongestCall, prompt |-> TRUE, block |-> "none"],
             {c \in Configs : c.requests_per_second = 2}, {0, Resolution})

\* time passes, a thread that can run does run, and the transport answers or
\* fails every attempt (the per-attempt timeout of _request bounds its wait);
\* nothing obliges the caller to cancel
Fairness ==
    /\ WF_vars(Tick)
    /\ \A t \in Threads :
          /\ WF_vars(RateLimitWake(t))
          /\ WF_vars(RateLimitStamp(t))
          /\ WF_vars(Send(t))
          /\ WF_vars(\E o \in env.outcomes : Respond(t, o))
          /\ WF_vars(BackoffWake(t))
          /\ WF_vars(Return(t))

SpecLive == InitLive /\ [][Next]_vars /\ Fairness

----------------------------------------------------------------------------
(* Properties *)

MinInterval == min_interval(cfg.requests_per_second)

\* _rate_limit returns in this step in thread t
Admitted(t) == th[t].pc = "rl_stamp" /\ th'[t].pc = "send"

\* a transport attempt starts in this step in thread t
Sent(t) == th'[t].attempts = th[t].attempts + 1

\* C1: with a single caller, any two consecutive returns of the rate-limit
\* wait are at least 1/requests_per_second apart, whatever the outcomes of
\* the calls and however long the client was idle
C1_SequentialSpacing ==
    [][env.callers = {MainThread} =>
          \A t \in Threads :
              (Admitted(t) /\ last_call # 0) => last_call' - last_call >= MinInterval]_vars

\* C1 witness: the second call started right after the first one's attempt and
\* has been admitted exactly min_interval after it
C1_Witness ==
    /\ nCalls = 2
    /\ th[MainThread].pc = "send"
    /\ th[MainThread].attempts = 0
    /\ last_call = lastSend + MinInterval

\* C2: with several callers on one client, in every interleaving no two
\* returns of the rate-limit wait are closer than 1/requests_per_second
C2_ConcurrentSpacing ==
    [][\A t \in Threads :
          (Admitted(t) /\ last_call # 0) => last_call' - last_call >= MinInterval]_vars

\* C3: every transport attempt, retries included, is at least
\* 1/requests_per_second after the previous attempt of the client
C3_AttemptsSpaced ==
    [][env.callers = {MainThread} =>
          \A t \in Threads :
              (Sent(t) /\ lastSend # 0) => now - lastSend >= MinInterval]_vars

\* C3 witness: a retry has been sent at the clock value of the attempt it
\* follows, with no pass through _rate_limit in between
C3_Witness ==
    /\ env.callers = {MainThread}
    /\ th[MainThread].pc = "inflight"
    /\ th[MainThread].attempts = 2
    /\ lastSend = last_call

\* every outcome of the call so far was a retryable one
AllRetryable(r) == r.retryables = r.attempts

\* the call ended by itself, not by the caller's interrupt
Ended(r) == r.pc = "done" /\ r.result.kind # "KeyboardInterrupt"

FirstResponse(r, s) == r.attempts = 1 /\ r.status = s /\ r.act # ""

\* the call ended after one attempt with the rejection error for status s
RejectedOnce(r, s) ==
    /\ r.pc = "done"
    /\ r.attempts = 1
    /\ r.result.kind = "HTTPError"
    /\ r.result.status = s

RetryAfter413(r) == r.status = 413 /\ r.ra > 0 /\ cfg.max_retries > 0

EndedOnSuccess(r) == r.pc = "done" /\ r.act = "returned" /\ r.status \in 200..399

\* C6 as stated: k retryable outcomes followed by a success status give
\* exactly k + 1 attempts and Success with the body of the last response
C6_SuccessAfterRetries ==
    \A t \in Threads :
        EndedOnSuccess(th[t]) =>
            /\ th[t].attempts = th[t].retryables + 1
            /\ th[t].result.kind = "Success"
            /\ th[t].result.value = ParseJson(th[t].body).value

\* C6 amended: k retryable outcomes followed by a success status give exactly
\* k + 1 attempts; get/post/put return the decoded JSON body of the last
\* response, or raise the decode error when the body is not JSON, and delete
\* returns None
C6_SuccessAfterRetriesAmended ==
    \A t \in Threads :
        EndedOnSuccess(th[t]) =>
            /\ th[t].attempts = th[t].retryables + 1
            /\ th[t].result.status = th[t].status
            /\ th[t].method = "DELETE" =>
                  th[t].result.kind = "Success" /\ th[t].result.value = "None"
            /\ (th[t].method # "DELETE" /\ th[t].body = "[]") =>
                  th[t].result.kind = "Success" /\ th[t].result.value = "list()"
            /\ (th[t].method # "DELETE" /\ th[t].body = "") =>
                  th[t].result.kind = "JSONDecodeError"

\* C6 witness: 500, 500, 200 gave three attempts and the body of the 200
C6_Witness ==
    /\ EndedOnSuccess(th[MainThread])
    /\ th[MainThread].method = "GET"
    /\ th[MainThread].attempts = 3
    /\ th[MainThread].retryables = 2
    /\ th[MainThread].status = 200
    /\ th[MainThread].result = [kind |-> "Success", status |-> 200, value |-> "list()"]

\* the outcome class the client acted on for the latest response: it retried
\* (or would have, with retries left), raised without retry, or went on to
\* return the result
Did(r) ==
    IF r.act \in {"retry", "exhausted"} THEN "RETRYABLE"
    ELSE IF r.result.kind = "HTTPError" THEN "FATAL"
    ELSE "SUCCESS"

\* a response has arrived in the call and the client has acted on it
Responded(r) == r.status > 0 /\ r.act # ""

\* Retry.total when the latest attempt of the call was made
TotalAt(r) == cfg.max_retries - (r.attempts - 1)

\* the classification as the specification states it
StatedClass(s) ==
    IF s \in {429, 500, 502, 503, 504} THEN "RETRYABLE"
    ELSE IF s \in 200..399 THEN "SUCCESS"
    ELSE "FATAL"

AmendedClass(s, has_retry_after, total) ==
    IF s \in {429, 500, 502, 503, 504} THEN "RETRYABLE"
    ELSE IF s = 413 /\ has_retry_after /\ total # 0 THEN "RETRYABLE"
    ELSE IF s \in 400..599 THEN "FATAL"
    ELSE "SUCCESS"

Waited(r) == r.act = "retry" /\ r.delay # -1

RejectedKind == Finish("GET", 404, "").kind

\* C9 as stated: after max_retries + 1 retryable outcomes the caller gets an
\* error wrapping the last status or transport error, of a kind distinct
\* from the kind raised for a fatal status
C9_ExhaustedKind ==
    \A t \in Threads :
        (th[t].pc = "done" /\ th[t].act = "exhausted") =>
            /\ th[t].result.status = th[t].status
            /\ th[t].result.kind # RejectedKind

\* C9 amended: after max_retries + 1 retryable outcomes the caller gets
\* HTTPError carrying the last status when the last outcome was a response,
\* the same kind as for a fatal status, and ConnectionError when it was a
\* transport failure
C9_ExhaustedKindAmended ==
    \A t \in Threads :
        (th[t].pc = "done" /\ th[t].act = "exhausted") =>
            /\ th[t].attempts = cfg.max_retries + 1
            /\ th[t].result.status = th[t].status
            /\ th[t].status > 0 =>
                  th[t].result.kind = "HTTPError" /\ RejectedKind = "HTTPError"
            /\ th[t].status = -1 => th[t].result.kind = "ConnectionError"

\* C9 witness: retries ran out on a 503 and the caller got HTTPError 503
C9_Witness ==
    /\ cfg.max_retries >= 1
    /\ th[MainThread].pc = "done"
    /\ th[MainThread].act = "exhausted"
    /\ th[MainThread].result = [kind |-> "HTTPError", status |-> 503, value |-> ""]

\* C10: a call interrupted while suspended in the rate-limit wait or in a
\* backoff wait ends with the interrupt as its result, and makes no transport
\* attempt afterwards
C10_CancelStops ==
    [][\A t \in Threads :
          /\ (th[t].pc \in {"rl_sleep", "backoff"} /\ th'[t].result.kind = "KeyboardInterrupt")
                => th'[t].pc = "done"
          /\ th[t].result.kind = "KeyboardInterrupt"
                => th'[t].pc \in {"done", "idle"} /\ ~Sent(t)]_vars

\* C10 witness: a call cancelled in its backoff wait has ended
C10_Witness ==
    /\ th[MainThread].pc = "done"
    /\ th[MainThread].result.kind = "KeyboardInterrupt"
    /\ th[MainThread].act = "retry"
    /\ th[MainThread].delay > 0

----------------------------------------------------------------------------
(* Calls as a whole *)

\* C11: every get/post/put/delete call eventually completes when the
\* transport answers or fails each attempt, and its caller receives exactly
\* one outcome, a result or one error: a call holds an outcome exactly when
\* it has ended, and no outcome of an intermediate attempt is delivered
C11_OneOutcome ==
    /\ \A t \in Threads : [](th[t].pc = "done" <=> th[t].result # NoResult)
    /\ \A t \in Threads : (th[t].pc # "idle") ~> (th[t].pc = "done")

C11_Witness ==
    \E t \in Threads :
        /\ th[t].pc = "done"
        /\ th[t].attempts >= 3
        /\ th[t].attempts = cfg.max_retries + 1
        /\ th[t].result = TransportFailed
        /\ now > Resolution + 3

\* C17: every call passes the rate limiter exactly once, before its first
\* transport attempt, and that pass writes the last-call timestamp whatever
\* the call's outcome turns out to be: every attempt, the first and the
\* re-sent ones, starts after exactly one pass, a call that ends after an
\* attempt has passed once, and _last_call is written by the pass and by
\* nothing else
C17_OnePass ==
    [][\A t \in Threads :
          /\ Admitted(t) => th[t].passes = 0 /\ th[t].attempts = 0 /\ last_call' = now
          /\ Sent(t) => th[t].passes = 1
          /\ (th'[t].pc = "done" /\ th[t].attempts >= 1) => th'[t].passes = 1
          /\ last_call' # last_call => \E u \in Threads : Admitted(u)]_vars

C17_Witness ==
    \E t \in Threads :
        /\ th[t].pc = "done"
        /\ th[t].result.kind = "HTTPError"
        /\ th[t].result.status = 503
        /\ th[t].attempts >= 2
        /\ th[t].passes = 1
        /\ nCalls = 2
        /\ last_call > Resolution

\* what calls for a re-send, by the answer alone: a transport failure
\* (status -1), a status of the forcelist, or 413, 429 or 503 with Retry-After,
\* while retries are left
ResendDue(status, retry_after, total) ==
    /\ total > 0
    /\ \/ status = -1
       \/ status \in {429, 500, 502, 503, 504}
       \/ status \in {413, 429, 503} /\ retry_after > 0

\* C18: the retry behaviour does not depend on the request method: GET, POST,
\* PUT, DELETE and PATCH all count as retryable methods, and whether the
\* client re-sends after an attempt is decided by the attempt's answer and
\* the retries left alone, for a POST as for a GET, never beyond max_retries
\* re-sends
C18_MethodBlind ==
    /\ \A m \in {"GET", "POST", "PUT", "DELETE", "PATCH"} : IsMethodRetryable(m)
    /\ \A t \in Threads :
          /\ th[t].attempts <= cfg.max_retries + 1
          /\ th[t].act # "" =>
                (th[t].act = "retry"
                    <=> ResendDue(th[t].status, th[t].ra, TotalAt(th[t])))

\* C18 witness: a POST is sent to the server for the third time in one call,
\* after a retryable status
C18_Witness ==
    \E t \in Threads :
        /\ th[t].method = "POST"
        /\ th[t].pc = "inflight"
        /\ th[t].attempts = 3
        /\ th[t].retryables = 2
        /\ lastSend > Resolution

\* a call starts in this step in thread t
Started(t) == th[t].pc = "idle" /\ th'[t].pc # "idle"

Suspended(t) == th[t].pc \in {"rl_sleep", "backoff"} /\ th[t].wake > now

\* the step thread t is about to take can be taken now
CanProceed(t) ==
    /\ (th[t].pc = "idle" /\ nCalls < env.budget)
            => ENABLED (\E m \in env.methods : StartCall(t, m))
    /\ th[t].pc = "rl_stamp" => ENABLED RateLimitStamp(t)
    /\ th[t].pc = "send" => ENABLED Send(t)
    /\ th[t].pc = "inflight" => ENABLED (\E o \in env.outcomes : Respond(t, o))

\* C15: while one caller is suspended in a rate-limit wait or in a backoff,
\* a concurrent caller on the same client is not stalled by it: whichever
\* step the other caller is at (entering the rate limiter, leaving it,
\* sending its attempt, receiving the answer), it can take that step at once
C15_NotStalled ==
    \A a \in Threads : \A b \in Threads \ {a} :
        Suspended(a) => CanProceed(b)

\* C15 witness: while one caller still sits in its backoff, the other one
\* has passed the rate limiter after that backoff began and has completed
C15_Witness ==
    \E a \in Threads : \E b \in Threads \ {a} :
        /\ th[a].pc = "backoff"
        /\ th[a].wake > now
        /\ th[b].pc = "done"
        /\ th[b].result.kind = "Success"
        /\ th[b].passes = 1
        /\ last_call > th[a].wake - th[a].delay

----------------------------------------------------------------------------
(* The client as a scoped resource *)

\* C12: when the client is used in a with-block, the session is closed on
\* every exit path of the block (normal completion, an error raised by a
\* call inside it, cancellation): in no reachable state has the block been
\* left while the session is still open
C12_ClosedOnExit ==
    blk.pos = "left" => session = "closed"

\* C12 witness: the block was left by a cancellation of its second call, and
\* the session is closed
C12_Witness ==
    /\ blk.pos = "left"
    /\ blk.exc = "KeyboardInterrupt"
    /\ session = "closed"
    /\ nCalls = 2
    /\ lastSend > Resolution

\* C19: when a call inside the with-block raised, the block is left with
\* the session closed and with that same error in flight: __exit__ neither
\* suppresses nor replaces it, and the failed call does not return normally
C19_ErrorPropagates ==
    [][(Leaves(MainThread) /\ th'[MainThread] # th[MainThread]) =>
          /\ blk'.pos = "left"
          /\ session' = "closed"
          /\ blk'.exc = th[MainThread].result.kind
          /\ blk'.exc # "none"]_vars

\* C19 witness: the block was left with the HTTPError of its second call
C19_Witness ==
    /\ blk.pos = "left"
    /\ blk.exc = "HTTPError"
    /\ session = "closed"
    /\ nCalls = 2
    /\ th[MainThread].pc = "idle"

----------------------------------------------------------------------------
(* The rate-limit wait on every accepted client *)

\* C13: the rate-limit wait has no error outcome and always returns, for
\* every client the constructor accepts: no call ends with an error raised in
\* _rate_limit, and a call that ended without being cancelled has passed the
\* rate limiter, which recorded the time of the pass
C13_WaitReturns ==
    \A t \in Threads :
        (th[t].pc = "done" /\ th[t].result # Interrupted) =>
            /\ th[t].result # DivisionFailed
            /\ th[t].passes = 1
            /\ last_call > 0

----------------------------------------------------------------------------
(* GeminiClient *)

\* C16: GeminiClient.generate issues a POST through the inherited post, and
\* the call reaches the rate limiter and the transport rather than failing
\* before any request is made: a generate call that ended without being
\* cancelled has passed the rate limiter and has sent a POST
C16_GenerateSends ==
    \A t \in Threads :
        (th[t].op = "generate" /\ th[t].pc = "done" /\ th[t].result # Interrupted) =>
            /\ th[t].method = "POST"
            /\ th[t].passes = 1
            /\ th[t].attempts >= 1

====
